---- MODULE Spec2Model ----
(***************************************************************************)
(* Verification model of kymatio.scattering2d: the ScatteringBase2D        *)
(* frontend (construction, build, create_filters), the forward call that   *)
(* runs the scattering cascade on a built object, and the coefficient      *)
(* reordering helper of the NumPy test-suite.                              *)
(***************************************************************************)
EXTENDS Integers, Sequences, FiniteSets, TLC

\* ------------------------------------------------------------------ bounds
MaxJ == 2          \* largest J handed to the constructor
MaxL == 2          \* largest L handed to the constructor
MaxDim == 5        \* largest M or N of shape
MaxBatchRank == 1  \* longest tuple of leading batch dimensions of an input
MaxScale == 3      \* largest J handed to the reordering helper
MaxAngles == 8     \* largest L handed to the reordering helper

VARIABLES
    \* ScatteringBase2D attributes
    J, L, shape, max_order, pre_pad,
    M, N, M_padded, N_padded, pad, phi, psi,
    \* lifecycle of the object and the error its construction ended in
    state, err,
    \* the forward calls in flight, one record per caller
    calls,
    \* reorder_coefficients_from_interleaved: arguments, locals, position
    tJ, tL, tpc, j1, l1, j2, l2, n, order0, order1, order2, layout

params == <<J, L, shape, max_order, pre_pad>>
built == <<M, N, M_padded, N_padded, pad>>
filters == <<phi, psi>>
objVars == <<params, built, filters, state, err>>
testVars == <<tJ, tL, tpc, j1, l1, j2, l2, n, order0, order1, order2, layout>>
vars == <<objVars, calls, testVars>>

\* ---------------------------------------------------------------- helpers
Min(a, b) == IF a < b THEN a ELSE b

CeilDiv(a, b) == (a + b - 1) \div b

\* ----------------------------------------------------- build (frontend)
\* if 2 ** self.J > self.M or 2 ** self.J > self.N: raise RuntimeError
TooSmallLoose(J_, M_, N_) == 2 ^ J_ > M_ /\ 2 ^ J_ > N_
TooSmallStrict(J_, M_, N_) == 2 ^ J_ >= M_ \/ 2 ^ J_ >= N_
TooSmall(J_, M_, N_) == 2 ^ J_ > M_ \/ 2 ^ J_ > N_

SmallestDimensionError == "The smallest dimension should be larger than 2^J."

\* utils.compute_padding: each dimension rounded up to a multiple of 2^J
\* with a margin of one more block.
compute_padding(M_, N_, J_) ==
    << ((M_ + 2 ^ J_) \div 2 ^ J_ + 1) * 2 ^ J_,
       ((N_ + 2 ^ J_) \div 2 ^ J_ + 1) * 2 ^ J_ >>

\* self.M_padded, self.N_padded = compute_padding(self.M, self.N, self.J)
PaddedShapeSwapped(M_, N_, J_) == compute_padding(N_, M_, J_)
PaddedShapeSquare(M_, N_, J_) == compute_padding(M_, M_, J_)
PaddedShape(M_, N_, J_) == compute_padding(M_, N_, J_)

\* the four amounts handed to backend.Pad: before/after on each axis
PadArgsEven(Mp, M_, Np, N_) ==
    << (Mp - M_) \div 2, (Mp - M_) \div 2, (Np - N_) \div 2, (Np - N_) \div 2 >>
PadArgs(Mp, M_, Np, N_) ==
    << (Mp - M_) \div 2, (Mp - M_ + 1) \div 2,
       (Np - N_) \div 2, (Np - N_ + 1) \div 2 >>

Build ==
    /\ state = "constructed"
    /\ M' = shape[1]
    /\ N' = shape[2]
    /\ IF TooSmall(J, shape[1], shape[2])
       THEN /\ state' = "error"
            /\ err' = SmallestDimensionError
            /\ UNCHANGED <<M_padded, N_padded, pad>>
       ELSE /\ M_padded' = PaddedShape(shape[1], shape[2], J)[1]
            /\ N_padded' = PaddedShape(shape[1], shape[2], J)[2]
            /\ pad' = PadArgs(M_padded', shape[1], N_padded', shape[2])
            /\ state' = "built"
            /\ err' = err
    /\ UNCHANGED <<params, filters, calls, testVars>>

\* ------------------------------------------------------- create_filters
InvalidScaleError == "invalid (J, L)"

\* filter_bank.filter_bank: rejects J <= 0 or L <= 0; otherwise phi is a
\* family of low-pass filters at resolution levels 0..J and psi[j, theta] a
\* family of band-pass filters at levels 0..j. A filter is its array size.
FilterSize(Mp, Np, r) == << Mp \div 2 ^ r, Np \div 2 ^ r >>

filter_bank(Mp, Np, J_, L_) ==
    IF J_ <= 0 \/ L_ <= 0
    THEN [error |-> InvalidScaleError, phi |-> <<>>, psi |-> <<>>]
    ELSE [error |-> "",
          phi |-> [r \in 0..J_ |-> FilterSize(Mp, Np, r)],
          psi |-> [p \in (0..(J_ - 1)) \X (0..(L_ - 1)) |->
                     [r \in 0..p[1] |-> FilterSize(Mp, Np, r)]]]

\* filters = filter_bank(self.M_padded, self.N_padded, self.J, self.L)
FilterBankArgs(Mp, Np, J_, L_) == filter_bank(Mp, Np, J_, L_)

CreateFilters ==
    /\ state = "built"
    /\ LET f == FilterBankArgs(M_padded, N_padded, J, L) IN
       IF f.error # ""
       THEN /\ state' = "error"
            /\ err' = f.error
            /\ UNCHANGED filters
       ELSE /\ phi' = f.phi
            /\ psi' = f.psi
            /\ state' = "ready"
            /\ err' = err
    /\ UNCHANGED <<params, built, calls, testVars>>

\* ------------------------------------------------------ scattering paths
\* The coefficient stack: order 0, then every (j1, theta1) in increasing
\* order, then (max_order = 2) every (j1, theta1, j2, theta2), j1 < j2 < J,
\* in increasing j1, theta1, j2, theta2.
Order1Paths(J_, L_) ==
    [i \in 1..(J_ * L_) |-> << (i - 1) \div L_, (i - 1) % L_ >>]

Order2Children(J_, L_, a, t) ==
    [i \in 1..((J_ - 1 - a) * L_) |->
        << a, t, a + 1 + (i - 1) \div L_, (i - 1) % L_ >>]

RECURSIVE Order2From(_, _, _)
Order2From(J_, L_, i) ==
    IF i > J_ * L_ THEN <<>>
    ELSE Order2Children(J_, L_, (i - 1) \div L_, (i - 1) % L_)
         \o Order2From(J_, L_, i + 1)

ScatteringPaths(J_, L_, order) ==
    << <<>> >> \o Order1Paths(J_, L_)
    \o (IF order = 2 THEN Order2From(J_, L_, 1) ELSE <<>>)

\* ------------------------------------------------------------ forward call
Callers == {"a", "b"}

NoInput == [kind |-> "none", shape |-> <<>>]

Idle ==
    [pc |-> "idle", x |-> NoInput, size |-> <<>>, k |-> 0, S |-> <<>>,
     mults |-> {}, nprim |-> 0, out |-> <<>>, err |-> ""]

Batches == {[i \in 1..k |-> 2] : k \in 0..MaxBatchRank}

\* input.shape[-2:] and input.shape[:-2]
Spatial(x) ==
    IF Len(x.shape) < 2 THEN x.shape
    ELSE SubSeq(x.shape, Len(x.shape) - 1, Len(x.shape))
Batch(x) ==
    IF Len(x.shape) < 2 THEN <<>>
    ELSE SubSeq(x.shape, 1, Len(x.shape) - 2)

\* the inputs a caller may hand to a built object
Inputs ==
    {NoInput}
    \cup {[kind |-> "array", shape |-> s] : s \in {<<>>, <<M>>}}
    \cup {[kind |-> "array", shape |-> b \o s] :
            b \in Batches,
            s \in {<<M, N>>, <<M_padded, N_padded>>, <<M - 1, N - 1>>}}

TypeErrorMsg == "The input should be a NumPy array."
DimsErrorMsg == "Input array must have at least two dimensions."
SpatialErrorMsg == "NumPy array must be of spatial size (M, N)."
PaddedErrorMsg == "Padded array must be of spatial size (M_padded, N_padded)."

\* the checks of scattering() on its input, in order; "" when it passes
InputErrorOneSize(x, pp, M_, N_, Mp, Np) ==
    IF x.kind # "array" THEN TypeErrorMsg
    ELSE IF Len(x.shape) < 2 THEN DimsErrorMsg
    ELSE IF ~pp /\ Spatial(x) # <<M_, N_>> THEN SpatialErrorMsg
    ELSE IF pp /\ Spatial(x) # <<M_, N_>> THEN PaddedErrorMsg
    ELSE ""
InputError(x, pp, M_, N_, Mp, Np) ==
    IF x.kind # "array" THEN TypeErrorMsg
    ELSE IF Len(x.shape) < 2 THEN DimsErrorMsg
    ELSE IF ~pp /\ Spatial(x) # <<M_, N_>> THEN SpatialErrorMsg
    ELSE IF pp /\ Spatial(x) # <<Mp, Np>> THEN PaddedErrorMsg
    ELSE ""

\* subsample(x, stride): every stride-th sample of each axis from index 0
Subsample(sz, stride) == << CeilDiv(sz[1], stride), CeilDiv(sz[2], stride) >>

\* unpad: drops the one-sample border of a downsampled coefficient
unpad(sz) == << sz[1] - 2, sz[2] - 2 >>

\* resolution level of the phi filter multiplied with a signal that has
\* been halved h times: "phi at resolution J - j1" (J for order 0)
PhiLevel(J_, h) == J_ - h
\* resolution level of the psi filter multiplied with such a signal
PsiLevel(h) == h

Mult(kind, family, index, r, h, sz) ==
    [filter |-> kind, index |-> index, level |-> r, halvings |-> h,
     exists |-> r \in DOMAIN family,
     fsize |-> IF r \in DOMAIN family THEN family[r] ELSE <<>>,
     ssize |-> Subsample(sz, 2 ^ h)]

\* the pointwise multiplications of one path on a padded signal of size sz
PathMults(p, sz) ==
    IF Len(p) = 0
    THEN {Mult("phi", phi, <<>>, PhiLevel(J, 0), 0, sz)}
    ELSE IF Len(p) = 2
    THEN {Mult("psi", psi[p], p, PsiLevel(0), 0, sz),
          Mult("phi", phi, <<>>, PhiLevel(J, p[1]), p[1], sz)}
    ELSE {Mult("psi", psi[<<p[3], p[4]>>], <<p[3], p[4]>>, PsiLevel(p[1]), p[1], sz),
          Mult("phi", phi, <<>>, PhiLevel(J, p[3]), p[3], sz)}

\* the subsampling strides applied along one path, in order
PathStrides(p) ==
    IF Len(p) = 0 THEN << 2 ^ J >>
    ELSE IF Len(p) = 2 THEN << 2 ^ p[1], 2 ^ (J - p[1]) >>
    ELSE << 2 ^ p[1], 2 ^ (p[3] - p[1]), 2 ^ (J - p[3]) >>

RECURSIVE SubsampleAll(_, _)
SubsampleAll(sz, strides) ==
    IF strides = <<>> THEN sz
    ELSE SubsampleAll(Subsample(sz, Head(strides)), Tail(strides))

\* backend primitives (fft2, multiply, ifft2, modulus, subsample) of a path
PathPrimitives(p) == IF Len(p) = 0 THEN 3 ELSE IF Len(p) = 2 THEN 8 ELSE 9

\* the filter bank after a path has read its filters
FiltersOverwritten(psi_, p) ==
    IF Len(p) = 2 THEN [psi_ EXCEPT ![p] = [r \in DOMAIN psi_[p] |-> <<0, 0>>]]
    ELSE psi_
FiltersAfterPath(psi_, p) == psi_

Call(c) ==
    /\ state = "ready"
    /\ calls[c].pc = "idle"
    /\ \E x \in Inputs :
         calls' = [calls EXCEPT ![c] = [Idle EXCEPT !.pc = "validate", !.x = x]]
    /\ UNCHANGED <<objVars, testVars>>

Validate(c) ==
    /\ calls[c].pc = "validate"
    /\ LET e == InputError(calls[c].x, pre_pad, M, N, M_padded, N_padded) IN
       calls' = [calls EXCEPT ![c] =
                    IF e # "" THEN [@ EXCEPT !.pc = "failed", !.err = e]
                    ELSE [@ EXCEPT !.pc = "pad"]]
    /\ UNCHANGED <<objVars, testVars>>

\* self.pad(input): symmetric padding by the amounts of build(), or the
\* input as it is when it was padded by the caller
Pad(c) ==
    /\ calls[c].pc = "pad"
    /\ LET s == Spatial(calls[c].x) IN
       calls' = [calls EXCEPT ![c] =
                    [@ EXCEPT !.pc = "fft",
                              !.size = IF pre_pad THEN s
                                       ELSE << s[1] + pad[1] + pad[2],
                                               s[2] + pad[3] + pad[4] >>]]
    /\ UNCHANGED <<objVars, testVars>>

FFT(c) ==
    /\ calls[c].pc = "fft"
    /\ calls' = [calls EXCEPT ![c] = [@ EXCEPT !.pc = "cascade", !.k = 1,
                                               !.nprim = @ + 1]]
    /\ UNCHANGED <<objVars, testVars>>

CascadeStep(c) ==
    /\ calls[c].pc = "cascade"
    /\ LET paths == ScatteringPaths(J, L, max_order)
           k == calls[c].k IN
       IF k > Len(paths)
       THEN /\ calls' = [calls EXCEPT ![c] = [@ EXCEPT !.pc = "unpad", !.mults = {}]]
            /\ psi' = psi
       ELSE /\ calls' = [calls EXCEPT ![c] =
                   [@ EXCEPT !.k = k + 1,
                             !.mults = PathMults(paths[k], calls[c].size),
                             !.nprim = @ + PathPrimitives(paths[k]),
                             !.S = Append(@, [path |-> paths[k],
                                              strides |-> PathStrides(paths[k]),
                                              size |-> SubsampleAll(calls[c].size,
                                                          PathStrides(paths[k]))])]]
            /\ psi' = FiltersAfterPath(psi, paths[k])
    /\ UNCHANGED <<params, built, phi, state, err, testVars>>

Unpad(c) ==
    /\ calls[c].pc = "unpad"
    /\ calls' = [calls EXCEPT ![c] =
                    [@ EXCEPT !.pc = "done",
                              !.out = Batch(calls[c].x) \o << Len(calls[c].S) >>
                                      \o unpad(calls[c].S[1].size)]]
    /\ UNCHANGED <<objVars, testVars>>

Return(c) ==
    /\ calls[c].pc \in {"done", "failed"}
    /\ calls' = [calls EXCEPT ![c] = Idle]
    /\ UNCHANGED <<objVars, testVars>>

Forward(c) ==
    \/ Call(c) \/ Validate(c) \/ Pad(c) \/ FFT(c)
    \/ CascadeStep(c) \/ Unpad(c) \/ Return(c)

\* ------------------------------- reorder_coefficients_from_interleaved
\* for j2 in range(j1 + 1, J)
J2StartSame(a) == a
J2Start(a) == a + 1

\* n += 1, then the append of n
AppendedIndexStale(i) == i
AppendedIndex(i) == i + 1

\* order0, order1, order2 = [], [], []; n = 0; order0.append(n)
Start ==
    /\ tpc = "start"
    /\ order0' = <<0>>
    /\ order1' = <<>>
    /\ order2' = <<>>
    /\ n' = 0
    /\ layout' = << <<>> >>
    /\ j1' = 0
    /\ tpc' = "for_j1"
    /\ UNCHANGED <<tJ, tL, l1, j2, l2, objVars, calls>>

\* for j1 in range(J)
ForJ1 ==
    /\ tpc = "for_j1"
    /\ IF j1 < tJ
       THEN l1' = 0 /\ tpc' = "for_l1"
       ELSE l1' = l1 /\ tpc' = "asserts"
    /\ UNCHANGED <<tJ, tL, j1, j2, l2, n, order0, order1, order2, layout,
                   objVars, calls>>

\* for l1 in range(L): n += 1; order1.append(n)
ForL1 ==
    /\ tpc = "for_l1"
    /\ IF l1 < tL
       THEN /\ n' = n + 1
            /\ order1' = Append(order1, AppendedIndex(n))
            /\ layout' = Append(layout, <<j1, l1>>)
            /\ j2' = J2Start(j1)
            /\ tpc' = "for_j2"
            /\ j1' = j1
       ELSE /\ j1' = j1 + 1
            /\ tpc' = "for_j1"
            /\ UNCHANGED <<n, order1, layout, j2>>
    /\ UNCHANGED <<tJ, tL, l1, l2, order0, order2, objVars, calls>>

\* for j2 in range(j1 + 1, J)
ForJ2 ==
    /\ tpc = "for_j2"
    /\ IF j2 < tJ
       THEN l2' = 0 /\ tpc' = "for_l2" /\ l1' = l1
       ELSE l2' = l2 /\ tpc' = "for_l1" /\ l1' = l1 + 1
    /\ UNCHANGED <<tJ, tL, j1, j2, n, order0, order1, order2, layout,
                   objVars, calls>>

\* for l2 in range(L): n += 1; order2.append(n)
ForL2 ==
    /\ tpc = "for_l2"
    /\ IF l2 < tL
       THEN /\ n' = n + 1
            /\ order2' = Append(order2, AppendedIndex(n))
            /\ layout' = Append(layout, <<j1, l1, j2, l2>>)
            /\ l2' = l2 + 1
            /\ UNCHANGED <<j2, tpc>>
       ELSE /\ j2' = j2 + 1
            /\ tpc' = "for_j2"
            /\ UNCHANGED <<n, order2, layout, l2>>
    /\ UNCHANGED <<tJ, tL, j1, l1, order0, order1, objVars, calls>>

\* n_order0, n_order1, n_order2 = 1, J * L, L ** 2 * J * (J - 1) // 2
\* and the three assertions on the lengths, then the return
Asserts ==
    /\ tpc = "asserts"
    /\ tpc' = IF /\ Len(order0) = 1
                 /\ Len(order1) = tJ * tL
                 /\ Len(order2) = (tL * tL * tJ * (tJ - 1)) \div 2
              THEN "return" ELSE "AssertionError"
    /\ UNCHANGED <<tJ, tL, j1, l1, j2, l2, n, order0, order1, order2, layout,
                   objVars, calls>>

\* reorder = np.concatenate((o0, o1, o2))
reorder == order0 \o order1 \o order2

\* S[..., reorder, :, :]: the interleaved layout taken at the indices of
\* reorder (Python indices start at 0)
Reordered == [i \in 1..Len(reorder) |-> layout[reorder[i] + 1]]

Reorder == Start \/ ForJ1 \/ ForL1 \/ ForJ2 \/ ForL2 \/ Asserts

InitObject ==
    /\ J \in 0..MaxJ
    /\ L \in 0..MaxL
    /\ shape \in (1..MaxDim) \X (1..MaxDim)
    /\ max_order \in {1, 2}
    /\ pre_pad \in BOOLEAN
    /\ M = 0 /\ N = 0 /\ M_padded = 0 /\ N_padded = 0
    /\ pad = <<>>
    /\ phi = <<>> /\ psi = <<>>
    /\ state = "constructed"
    /\ err = ""
    /\ calls = [c \in Callers |-> Idle]

TestIdle ==
    /\ tJ = 0 /\ tL = 0 /\ tpc = "off"
    /\ j1 = 0 /\ l1 = 0 /\ j2 = 0 /\ l2 = 0 /\ n = 0
    /\ order0 = <<>> /\ order1 = <<>> /\ order2 = <<>> /\ layout = <<>>

Init == InitObject /\ TestIdle

Next == Build \/ CreateFilters \/ \E c \in Callers : Forward(c)

Spec == Init /\ [][Next]_vars

\* the reordering helper called with (J, L), the object left alone
InitReorder ==
    /\ tJ \in 1..MaxScale
    /\ tL \in 1..MaxAngles
    /\ tpc = "start"
    /\ j1 = 0 /\ l1 = 0 /\ j2 = 0 /\ l2 = 0 /\ n = 0
    /\ order0 = <<>> /\ order1 = <<>> /\ order2 = <<>> /\ layout = <<>>
    /\ J = tJ /\ L = tL /\ shape = <<2 ^ tJ, 2 ^ tJ>>
    /\ max_order = 2 /\ pre_pad = FALSE
    /\ M = 0 /\ N = 0 /\ M_padded = 0 /\ N_padded = 0
    /\ pad = <<>>
    /\ phi = <<>> /\ psi = <<>>
    /\ state = "constructed"
    /\ err = ""
    /\ calls = [c \in Callers |-> Idle]

SpecReorder == InitReorder /\ [][Reorder]_vars

\* ================================================================== claims
Active(c) == calls[c].pc \notin {"idle", "validate"}
Done(c) == calls[c].pc = "done"
OutSpatial(c) == SubSeq(calls[c].out, Len(calls[c].out) - 1, Len(calls[c].out))

\* C1: build() ends in the RuntimeError about the smallest dimension exactly
\* when 2^J > M or 2^J > N; otherwise it succeeds and sets M_padded and
\* N_padded. A shape whose smallest dimension equals 2^J is accepted.
C1_BuildFailsIffTooSmall ==
    state # "constructed" =>
        /\ (err = SmallestDimensionError) <=> (2 ^ J > shape[1] \/ 2 ^ J > shape[2])
        /\ (err = SmallestDimensionError) =>
               state = "error" /\ M_padded = 0 /\ N_padded = 0
        /\ ~(2 ^ J > shape[1] \/ 2 ^ J > shape[2]) =>
               /\ M_padded > 0 /\ N_padded > 0
               /\ M = shape[1] /\ N = shape[2]
               /\ state = "error" => err = InvalidScaleError

C1_Witness == state = "built" /\ J = 2 /\ 2 ^ J = Min(M, N)

AxisPlan(padded, original, before, after) ==
    /\ padded % (2 ^ J) = 0
    /\ padded > original
    /\ before + after = padded - original
    /\ 2 * before <= padded - original
    /\ (padded - original) % 2 = 0 => after = before
    /\ (padded - original) % 2 = 1 => after = before + 1

C6_PaddingPlan ==
    state \in {"built", "ready"} =>
        /\ AxisPlan(M_padded, M, pad[1], pad[2])
        /\ AxisPlan(N_padded, N, pad[3], pad[4])

C6_Witness ==
    /\ state = "built"
    /\ (M_padded - M) % 2 = 1
    /\ (N_padded - N) % 2 = 0
    /\ pad[2] = pad[1] + 1

\* C7 as stated: unpad applied to a coefficient of size
\* (M_padded / 2^J, N_padded / 2^J) returns size (ceil(M / 2^J), ceil(N / 2^J)).
C7_Original ==
    \A c \in Callers : Done(c) =>
        OutSpatial(c) = << CeilDiv(M, 2 ^ J), CeilDiv(N, 2 ^ J) >>

\* C7 amended: unpad applied to a coefficient of size
\* (M_padded / 2^J, N_padded / 2^J) returns size (M // 2^J, N // 2^J), the
\* floor quotient, so unpad after pad gives the original extent divided by
\* 2^J and rounded down.
C7_UnpadFloor ==
    \A c \in Callers : Done(c) =>
        /\ M_padded % (2 ^ J) = 0 /\ N_padded % (2 ^ J) = 0
        /\ \A i \in 1..Len(calls[c].S) :
              calls[c].S[i].size = << M_padded \div 2 ^ J, N_padded \div 2 ^ J >>
        /\ OutSpatial(c) = << M \div 2 ^ J, N \div 2 ^ J >>

C7_Witness ==
    \E c \in Callers :
        /\ Done(c) /\ ~pre_pad
        /\ M % (2 ^ J) # 0
        /\ OutSpatial(c)[1] < CeilDiv(M, 2 ^ J)

\* C5: a successful forward call on an input of shape B ++ (M, N) returns
\* shape B ++ (C, M // 2^J, N // 2^J): the batch dimensions are kept in
\* place, C depends on J, L and max_order only, and the spatial size is the
\* floor quotient also when 2^J does not divide M or N.
Channels == 1 + J * L + (IF max_order = 2 THEN (L * L * J * (J - 1)) \div 2 ELSE 0)

C5_OutputShape ==
    \A c \in Callers : Done(c) =>
        calls[c].out = Batch(calls[c].x) \o << Channels, M \div 2 ^ J, N \div 2 ^ J >>

C5_Witness ==
    \E c \in Callers :
        /\ Done(c)
        /\ Len(Batch(calls[c].x)) >= 1
        /\ M % (2 ^ J) # 0
        /\ max_order = 2 /\ J = 2

\* C8: a forward call whose input has fewer than two dimensions, or whose
\* spatial size is not (M, N) without pre_pad, or not (M_padded, N_padded)
\* with pre_pad, fails before any backend primitive has run and with no
\* coefficient returned; the pre_pad size error differs from the other one.
BadShape(x) ==
    \/ Len(x.shape) < 2
    \/ ~pre_pad /\ Spatial(x) # <<M, N>>
    \/ pre_pad /\ Spatial(x) # <<M_padded, N_padded>>

FreshSize(x) ==
    IF pre_pad THEN Spatial(x)
    ELSE << Spatial(x)[1] + PadArgs(compute_padding(shape[1], shape[2], J)[1], shape[1],
                                    compute_padding(shape[1], shape[2], J)[2], shape[2])[1]
                          + PadArgs(compute_padding(shape[1], shape[2], J)[1], shape[1],
                                    compute_padding(shape[1], shape[2], J)[2], shape[2])[2],
            Spatial(x)[2] + PadArgs(compute_padding(shape[1], shape[2], J)[1], shape[1],
                                    compute_padding(shape[1], shape[2], J)[2], shape[2])[3]
                          + PadArgs(compute_padding(shape[1], shape[2], J)[1], shape[1],
                                    compute_padding(shape[1], shape[2], J)[2], shape[2])[4] >>

FreshStack(x) ==
    [i \in 1..Len(ScatteringPaths(J, L, max_order)) |->
        [path |-> ScatteringPaths(J, L, max_order)[i],
         strides |-> PathStrides(ScatteringPaths(J, L, max_order)[i]),
         size |-> SubsampleAll(FreshSize(x),
                               PathStrides(ScatteringPaths(J, L, max_order)[i]))]]

FreshOut(x) ==
    Batch(x) \o << Len(FreshStack(x)) >> \o unpad(FreshStack(x)[1].size)

RECURSIVE Product(_)
Product(s) == IF s = <<>> THEN 1 ELSE Head(s) * Product(Tail(s))

C10_StridesMultiplyTo2J ==
    \A c \in Callers : \A i \in 1..Len(calls[c].S) :
        Product(calls[c].S[i].strides) = 2 ^ J

Range(s) == {s[i] : i \in 1..Len(s)}

Order1Set == (0..(tJ - 1)) \X (0..(tL - 1))
Order2Set ==
    {q \in (0..(tJ - 1)) \X (0..(tL - 1)) \X (0..(tJ - 1)) \X (0..(tL - 1)) :
        q[1] < q[3]}

C3_CoefficientCount ==
    /\ tpc # "AssertionError"
    /\ tpc = "return" =>
          /\ Len(order0) = 1
          /\ Len(order1) = tJ * tL
          /\ 2 * Len(order2) = tL * tL * tJ * (tJ - 1)
          /\ n + 1 = 1 + tJ * tL + (tL * tL * tJ * (tJ - 1)) \div 2
          /\ Len(ScatteringPaths(tJ, tL, 2)) = n + 1
          /\ Len(ScatteringPaths(tJ, tL, 1)) = 1 + tJ * tL
          /\ Range(ScatteringPaths(tJ, tL, 1)) = {<<>>} \cup Order1Set
          /\ Range(ScatteringPaths(tJ, tL, 2)) = {<<>>} \cup Order1Set \cup Order2Set
          /\ Range(layout) = {<<>>} \cup Order1Set \cup Order2Set
          /\ Len(layout) = n + 1

C3_Witness ==
    /\ tpc = "return"
    /\ tJ = 3 /\ tL = 8
    /\ Len(reorder) = 217

\* C4: order0 ++ order1 ++ order2 is a permutation of 0..n-1, and the
\* interleaved layout taken in that order is the grouped stack: order 0
\* first, then the order-1 paths in increasing (j1, theta1), then the
\* order-2 paths in increasing (j1, theta1, j2, theta2).
LexLess(a, b) ==
    \E i \in 1..Len(a) :
        /\ a[i] < b[i]
        /\ \A m \in 1..(i - 1) : a[m] = b[m]

C4_OrderingLaw ==
    tpc = "return" =>
        /\ Len(reorder) = n + 1
        /\ Range(reorder) = 0..n
        /\ Reordered = ScatteringPaths(tJ, tL, 2)
        /\ Reordered[1] = <<>>
        /\ \A i \in 2..(tJ * tL + 1) :
              /\ Len(Reordered[i]) = 2
              /\ i > 2 => LexLess(Reordered[i - 1], Reordered[i])
        /\ \A i \in (tJ * tL + 2)..Len(Reordered) :
              /\ Len(Reordered[i]) = 4
              /\ Reordered[i][1] < Reordered[i][3]
              /\ i > tJ * tL + 2 => LexLess(Reordered[i - 1], Reordered[i])

C4_Witness ==
    /\ tpc = "return"
    /\ tJ >= 2 /\ tL >= 2
    /\ \E i \in 1..Len(reorder) : reorder[i] # i - 1
====
